---- MODULE Spec2Model ----
(***************************************************************************)
(* Model of the trash core of the Picard "Send to Recycle Bin" plugin     *)
(* (src/__init__.py; src/recycle-bin.py holds the same functions).        *)
(*                                                                         *)
(* Strings are handled character by character (Len, SubSeq, \o), so that  *)
(* prefix tests, basename, splitext, path joining, decimal formatting and  *)
(* percent encoding are computed and not assumed.  The filesystem is a     *)
(* function from absolute paths to entries.  One caller issues             *)
(* send_paths_to_trash calls one after the other; each mover advances by   *)
(* one system call (or one loop iteration part) per step.                  *)
(*                                                                         *)
(* Scope: the input paths name regular files (the host passes              *)
(* File.filename values); no input path lies inside the trash itself.      *)
(***************************************************************************)
EXTENDS Integers, Sequences, FiniteSets, TLC

VARIABLES
    fs,        \* filesystem: absolute path -> [kind, data]
    bulk,      \* families <<dir, root, ext>> whose names root.1ext .. root.9999ext all exist
    locked,    \* source files whose move raises (permission denied)
    longname,  \* source files whose .trashinfo record cannot be written
    calls,     \* number of send_paths_to_trash calls issued so far
    pc,        \* position of the running call
    rawPaths,  \* argument paths, before normalization
    platform,  \* effective platform identifier (platform or sys.platform)
    paths,     \* normalized path list
    invoked,   \* movers invoked by the running call, in order
    home_dir,  \* home directory of the running call
    nowArg,    \* the injected datetime, or None
    now,       \* datetime used by the freedesktop mover
    stamp,     \* formatted deletion date of the running call
    idx,       \* loop index into paths (1-based)
    dest,      \* destination chosen by unique_dest_path for paths[idx]
    ok,        \* succeeded list
    failed,    \* failed list
    osCalls,   \* SHFileOperationW requests of the running call, each with its answer
    fsAtCall   \* history: the filesystem when the running call started

vars == <<fs, bulk, locked, longname, calls, pc, rawPaths, platform, paths, invoked,
          home_dir, nowArg, now, stamp, idx, dest, ok, failed, osCalls, fsAtCall>>

(***************************************************************************)
(* Bounds of the model.                                                    *)
(***************************************************************************)
MaxPaths == 2
MaxCalls == 2
\* Calls made on a trash whose 9999 suffixed names are all taken.
MaxCallsWhenFull == 1

(***************************************************************************)
(* Strings.                                                                *)
(***************************************************************************)
None == [t |-> "None", v |-> ""]
Str(chars) == [t |-> "str", v |-> chars]
PathObj(chars) == [t |-> "Path", v |-> chars]
List(seq) == [t |-> "list", v |-> seq]
Sep == "/"

\* The character at position k of s, as a string of length one.
Char(s, k) == SubSeq(s, k, k)

StartsWith(s, p) == Len(s) >= Len(p) /\ SubSeq(s, 1, Len(p)) = p
EndsWith(s, p) == Len(s) >= Len(p) /\ SubSeq(s, Len(s) - Len(p) + 1, Len(s)) = p

\* Positions of character c in s.
Positions(s, c) == {k \in 1..Len(s) : Char(s, k) = c}
Max(S) == CHOOSE x \in S : \A y \in S : y <= x
Min(S) == CHOOSE x \in S : \A y \in S : x <= y
LastIndex(s, c) == IF Positions(s, c) = {} THEN 0 ELSE Max(Positions(s, c))

\* str(int): decimal digits, no padding.
Digit(d) ==
    CASE d = 0 -> "0" [] d = 1 -> "1" [] d = 2 -> "2" [] d = 3 -> "3" [] d = 4 -> "4"
      [] d = 5 -> "5" [] d = 6 -> "6" [] d = 7 -> "7" [] d = 8 -> "8" [] d = 9 -> "9"
RECURSIVE Dec(_)
Dec(n) == IF n < 10 THEN Digit(n) ELSE Dec(n \div 10) \o Digit(n % 10)
IsDigit(c) == c \in {"0", "1", "2", "3", "4", "5", "6", "7", "8", "9"}

\* os.path.join(a, b) on POSIX.
PathJoin(a, b) ==
    IF StartsWith(b, Sep) THEN b
    ELSE IF a = "" \/ EndsWith(a, Sep) THEN a \o b
    ELSE a \o Sep \o b

\* os.path.basename(p): what follows the last "/".
Basename(p) == SubSeq(p, LastIndex(p, "/") + 1, Len(p))

\* os.path.splitext(name) for a name without "/": the extension starts at the
\* last dot, unless only dots precede that dot.
Splitext(name) ==
    LET d == LastIndex(name, ".")
    IN IF d > 0 /\ \E k \in 1..(d - 1) : Char(name, k) # "."
       THEN <<SubSeq(name, 1, d - 1), SubSeq(name, d, Len(name))>>
       ELSE <<name, "">>

(***************************************************************************)
(* os.path.abspath(p) = normpath(join(cwd, p)): components split at "/",   *)
(* empty and "." components dropped, ".." removing the component before.   *)
(***************************************************************************)
Cwd == "/a"

RECURSIVE Components(_)
Components(p) ==
    IF p = "" THEN <<>>
    ELSE LET k == IF Positions(p, "/") = {} THEN Len(p) + 1 ELSE Min(Positions(p, "/"))
         IN <<SubSeq(p, 1, k - 1)>> \o Components(SubSeq(p, k + 1, Len(p)))

RECURSIVE Collapse(_, _)
Collapse(done, rest) ==
    IF rest = <<>> THEN done
    ELSE LET c == Head(rest)
         IN IF c = "" \/ c = "." THEN Collapse(done, Tail(rest))
            ELSE IF c = ".."
                 THEN Collapse(IF done = <<>> THEN done ELSE SubSeq(done, 1, Len(done) - 1),
                               Tail(rest))
            ELSE Collapse(Append(done, c), Tail(rest))

RECURSIVE Rooted(_)
Rooted(comps) == IF comps = <<>> THEN "" ELSE Sep \o Head(comps) \o Rooted(Tail(comps))

AbsPath(p) ==
    LET comps == Collapse(<<>>, Components(PathJoin(Cwd, p)))
    IN IF comps = <<>> THEN Sep ELSE Rooted(comps)

(***************************************************************************)
(* urllib.parse.quote(s) with the default safe="/": letters, digits and    *)
(* "_.-~/" are kept, any other character becomes %XX (upper-case hex of    *)
(* its code).                                                              *)
(***************************************************************************)
Letters == {"a", "b", "c", "d", "e", "f", "g", "h", "i", "j", "k", "l", "m", "n", "o",
            "p", "q", "r", "s", "t", "u", "v", "w", "x", "y", "z",
            "A", "B", "C", "D", "E", "F", "G", "H", "I", "J", "K", "L", "M", "N", "O",
            "P", "Q", "R", "S", "T", "U", "V", "W", "X", "Y", "Z"}
QuoteSafe(c) == c \in Letters \/ IsDigit(c) \/ c \in {"_", ".", "-", "~", "/"}

\* Character codes of the unsafe characters that occur in the model's paths.
Ord(c) == CASE c = " " -> 32 [] c = "%" -> 37 [] c = "[" -> 91 [] c = "]" -> 93 [] c = "=" -> 61
HexDigit(n) ==
    IF n < 10 THEN Digit(n)
    ELSE CASE n = 10 -> "A" [] n = 11 -> "B" [] n = 12 -> "C" [] n = 13 -> "D"
           [] n = 14 -> "E" [] n = 15 -> "F"

RECURSIVE Quote(_)
Quote(s) ==
    IF s = "" THEN ""
    ELSE (IF QuoteSafe(Char(s, 1)) THEN Char(s, 1)
          ELSE "%" \o HexDigit(Ord(Char(s, 1)) \div 16) \o HexDigit(Ord(Char(s, 1)) % 16))
         \o Quote(SubSeq(s, 2, Len(s)))

(***************************************************************************)
(* Filesystem.  An entry is a directory or a file with its content, a      *)
(* sequence of lines.  A family <<dir, root, ext>> in bulk stands for the  *)
(* 9999 files dir/root.1ext .. dir/root.9999ext, which all exist.          *)
(***************************************************************************)
DirEntry == [kind |-> "dir", data |-> <<>>]
FileEntry(lines) == [kind |-> "file", data |-> lines]

\* The kernel's path resolution: a relative path is taken from the working
\* directory (the model has no absolute path with empty, "." or ".." parts).
Resolve(p) == IF StartsWith(p, Sep) THEN p ELSE AbsPath(p)

InFamily(q, fam) ==
    LET pre == PathJoin(fam[1], fam[2]) \o "."
    IN /\ StartsWith(q, pre)
       /\ EndsWith(q, fam[3])
       /\ Len(q) > Len(pre) + Len(fam[3])
       /\ LET mid == SubSeq(q, Len(pre) + 1, Len(q) - Len(fam[3]))
          IN Len(mid) <= 4 /\ Char(mid, 1) # "0" /\ \A k \in 1..Len(mid) : IsDigit(Char(mid, k))

\* os.path.exists(p)
Exists(f, b, p) ==
    LET q == Resolve(p) IN q \in DOMAIN f \/ \E fam \in b : InFamily(q, fam)

\* The directories on the way to p, p included, outermost first.
Ancestors(p) ==
    LET comps == Components(SubSeq(p, 2, Len(p)))
    IN [k \in 1..Len(comps) |-> Rooted(SubSeq(comps, 1, k))]
AncestorSet(p) == {Ancestors(p)[k] : k \in 1..Len(Ancestors(p))}

\* os.makedirs(p, exist_ok=True): creates every missing directory on the way;
\* an existing directory is left alone, an existing file on the way is an error.
MakedirsBlocked(f, p) == \E q \in AncestorSet(p) : q \in DOMAIN f /\ f[q].kind # "dir"
\* Mutant: without exist_ok, an existing directory is an error too.
MakedirsNeededOrExists(f, p) == TRUE
MakedirsNeeded(f, p) == \E q \in AncestorSet(p) : q \notin DOMAIN f
Makedirs(f, p) ==
    [q \in DOMAIN f \cup AncestorSet(p) |-> IF q \in DOMAIN f THEN f[q] ELSE DirEntry]

\* shutil.move(src, dst) onto a destination that is no directory: a rename,
\* which replaces whatever file holds the destination name.
MoveFile(f, src, dst) ==
    [q \in (DOMAIN f \ {Resolve(src)}) \cup {dst} |->
        IF q = dst THEN f[Resolve(src)] ELSE f[q]]

\* shutil.move(src, dst): a destination that is a directory receives the file
\* under the source's base name (the directories of the model that can be a
\* destination are empty); any other destination is renamed onto.
ShutilMove(f, src, dst) ==
    IF dst \in DOMAIN f /\ f[dst].kind = "dir"
    THEN MoveFile(f, src, PathJoin(dst, Basename(src)))
    ELSE MoveFile(f, src, dst)

\* open(path, "w") and the writes: the file is created, or truncated and rewritten.
WriteFile(f, path, lines) ==
    [q \in DOMAIN f \cup {path} |-> IF q = path THEN FileEntry(lines) ELSE f[q]]

(***************************************************************************)
(* The program's pure parts.                                               *)
(***************************************************************************)
\* Python truth value of an argument: None, "" and [] are falsy.
Truthy(x) ==
    CASE x.t = "None" -> FALSE
      [] x.t = "str" -> x.v # ""
      [] x.t = "list" -> x.v # <<>>
      [] x.t = "Path" -> TRUE

\* Mutant: the falsy entries are not dropped.
NormalizeKeepAll(raw) ==
    LET given == IF Truthy(raw) THEN raw.v ELSE <<>>
    IN [k \in 1..Len(given) |-> given[k].v]

\* [str(p) for p in (paths or []) if p]
Normalize(raw) ==
    LET given == IF Truthy(raw) THEN raw.v ELSE <<>>
        kept == SelectSeq(given, Truthy)
    IN [k \in 1..Len(kept) |-> kept[k].v]

WinTag == "win"
DarwinTag == "darwin"
SysPlatform == "linux"
ExpandUser == "/h"

\* Mutant: only the identifier "win32" counts as Windows.
DispatchExact(plat) ==
    IF plat = "win32" THEN "windows"
    ELSE IF plat = DarwinTag THEN "macos"
    ELSE "freedesktop"

\* The mover send_paths_to_trash hands a non-empty list to.
Dispatch(plat) ==
    IF StartsWith(plat, WinTag) THEN "windows"
    ELSE IF plat = DarwinTag THEN "macos"
    ELSE "freedesktop"

\* range(1, 10_000) stops before ProbeLimit.
ProbeLimit == 10000

Found(path) == [err |-> FALSE, path |-> path]
RuntimeError == [err |-> TRUE, path |-> ""]

\* Mutant: the probe starts at 0, as range(10_000) would.
unique_dest_path_from_zero(f, b, dest_dir, base_name) ==
    LET candidate == PathJoin(dest_dir, base_name)
    IN IF ~Exists(f, b, candidate) THEN Found(candidate)
       ELSE LET se == Splitext(base_name)
                Cand(n) == PathJoin(dest_dir, se[1] \o "." \o Dec(n) \o se[2])
            IN IF \E n \in 0..(ProbeLimit - 1) : ~Exists(f, b, Cand(n))
               THEN Found(Cand(CHOOSE n \in 0..(ProbeLimit - 1) :
                                  /\ ~Exists(f, b, Cand(n))
                                  /\ \A m \in 0..(n - 1) : Exists(f, b, Cand(m))))
               ELSE RuntimeError

\* Mutant: the base name is taken without any probe.
unique_dest_path_no_probe(f, b, dest_dir, base_name) ==
    Found(PathJoin(dest_dir, base_name))

\* _unique_dest_path(dest_dir, base_name) on filesystem f, b.
unique_dest_path(f, b, dest_dir, base_name) ==
    LET candidate == PathJoin(dest_dir, base_name)
    IN IF ~Exists(f, b, candidate) THEN Found(candidate)
       ELSE LET se == Splitext(base_name)
                Cand(n) == PathJoin(dest_dir, se[1] \o "." \o Dec(n) \o se[2])
            IN IF \E n \in 1..(ProbeLimit - 1) : ~Exists(f, b, Cand(n))
               THEN Found(Cand(CHOOSE n \in 1..(ProbeLimit - 1) :
                                  /\ ~Exists(f, b, Cand(n))
                                  /\ \A m \in 1..(n - 1) : Exists(f, b, Cand(m))))
               ELSE RuntimeError

TrashName == ".Trash"

\* Mutant: the trash directory is named without its leading dot.
MacTrashDirNoDot(home) == PathJoin(home, "Trash")

MacTrashDir(home) == PathJoin(home, TrashName)
TrashRoot(home) ==
    PathJoin(PathJoin(PathJoin(home, ".local"),
                      "share"),
             "Trash")
FilesDir(home) == PathJoin(TrashRoot(home), "files")
InfoDir(home) == PathJoin(TrashRoot(home), "info")
InfoSuffix == ".trashinfo"

\* info_path for a destination in files/.
InfoPath(home, d) == PathJoin(InfoDir(home), Basename(d) \o InfoSuffix)

\* strftime("%H:%M:%S") of a datetime [h, m, s, us]: two digits each, the
\* microseconds dropped.  (The date part and the conversion to local time
\* are left out: the model's datetimes are local times of one day.)
Pad2(n) == Digit(n \div 10) \o Digit(n % 10)
Strftime(t) == Pad2(t.h) \o ":" \o Pad2(t.m) \o ":" \o Pad2(t.s)

HeaderLine == "[Trash Info]"
PathKey == "Path="
DateKey == "DeletionDate="

\* Mutant: the path is encoded as given, without abspath.
TrashInfoLinesAsGiven(p, st) ==
    <<HeaderLine, PathKey \o Quote(p), DateKey \o st>>

\* The three lines written to the .trashinfo record of p.
TrashInfoLines(p, st) ==
    <<HeaderLine, PathKey \o Quote(AbsPath(p)), DateKey \o st>>

\* "\0".join(existing) + "\0\0", and the shell's reading of that buffer.
\* Nul stands for the NUL character, which no path contains.
Nul == "|"
RECURSIVE JoinNul(_)
JoinNul(names) ==
    IF names = <<>> THEN ""
    ELSE IF Len(names) = 1 THEN Head(names)
    ELSE Head(names) \o Nul \o JoinNul(Tail(names))
FromBuf(existing) == JoinNul(existing) \o Nul \o Nul

RECURSIVE ShellNames(_)
ShellNames(buf) ==
    IF buf = "" \/ StartsWith(buf, Nul) THEN <<>>
    ELSE LET k == Min(Positions(buf, Nul))
         IN <<SubSeq(buf, 1, k - 1)>> \o ShellNames(SubSeq(buf, k + 1, Len(buf)))

\* The filesystem after the shell has recycled the named files.
Recycle(f, names) ==
    LET gone == {Resolve(names[k]) : k \in 1..Len(names)}
    IN [q \in DOMAIN f \ gone |-> f[q]]

(***************************************************************************)
(* The world the calls run in.                                             *)
(***************************************************************************)
\* Two files with the same base name, a file named like the first alternative
\* of that base name, and a path that names nothing.  The caller names the
\* first one relative to the working directory, as a Path object, the others
\* as absolute strings.
P1 == "s.t.m"
P2 == "/b c/s.t.m"
P3 == "/b c/s.t.1.m"
PMissing == "/a/no"

BaseName == "s.t.m"
FirstAlt == "s.t.1.m"
SecondAlt == "s.t.2.m"

Sources == {AbsPath(P1), P2, P3}
PathArgs == {Str(""), PathObj(P1), Str(P2), Str(P3), Str(PMissing)}
PathLists == {None} \cup {List(l) : l \in UNION {[1..n -> PathArgs] : n \in 0..MaxPaths}}
PlatformArgs == {None, Str(""), Str("win32"), Str(WinTag), Str(DarwinTag),
                 Str("linux")}
HomeArgs == {None, Str(ExpandUser)}
Clock1 == [h |-> 9, m |-> 5, s |-> 7, us |-> 0]
Clock2 == [h |-> 23, m |-> 59, s |-> 59, us |-> 999999]
NowArgs == {None, Clock2}
ClockReads == {Clock1}

OldData == <<"old">>
OldInfo == <<HeaderLine, PathKey \o "/old", DateKey \o Strftime(Clock1)>>
SourceData(p) == <<p>>

FsOf(pairs) == [q \in {pr[1] : pr \in pairs} |-> (CHOOSE pr \in pairs : pr[1] = q)[2]]

BasePairs ==
    {<<Sep, DirEntry>>, <<"/a", DirEntry>>, <<"/b c", DirEntry>>,
     <<ExpandUser, DirEntry>>}
    \cup {<<p, FileEntry(SourceData(p))>> : p \in Sources}

TrashDirPairs ==
    {<<q, DirEntry>> : q \in AncestorSet(MacTrashDir(ExpandUser))
                            \cup AncestorSet(FilesDir(ExpandUser))
                            \cup AncestorSet(InfoDir(ExpandUser))}

\* An old trashed file under the given name, with its record in info/.
OldPairs(name) ==
    {<<PathJoin(MacTrashDir(ExpandUser), name), FileEntry(OldData)>>,
     <<PathJoin(FilesDir(ExpandUser), name), FileEntry(OldData)>>,
     <<PathJoin(InfoDir(ExpandUser), name \o InfoSuffix), FileEntry(OldInfo)>>}
OrphanInfoPairs(name) ==
    {<<PathJoin(InfoDir(ExpandUser), name \o InfoSuffix), FileEntry(OldInfo)>>}

\* A directory where the record of the given name would be written.
DirAtRecordPairs(name) ==
    {<<PathJoin(InfoDir(ExpandUser), name \o InfoSuffix), DirEntry>>}

TrashVariants == {"fresh", "empty", "one", "gap", "blocked", "full"}
TrashPairs(variant) ==
    CASE variant = "fresh" -> {}
      [] variant = "empty" -> TrashDirPairs
      [] variant = "one" -> TrashDirPairs \cup OldPairs(BaseName)
      [] variant = "gap" -> TrashDirPairs \cup OldPairs(FirstAlt) \cup OrphanInfoPairs(BaseName)
      [] variant = "blocked" -> TrashDirPairs \cup OldPairs(BaseName)
                                  \cup DirAtRecordPairs(FirstAlt)
      [] variant = "full" -> TrashDirPairs \cup OldPairs(BaseName)
FullFamilies ==
    {<<MacTrashDir(ExpandUser), Splitext(BaseName)[1], Splitext(BaseName)[2]>>,
     <<FilesDir(ExpandUser), Splitext(BaseName)[1], Splitext(BaseName)[2]>>}

AtMostOne(S) == {{}} \cup {{x} : x \in S}
\* The files that may be immovable, or have a record that cannot be written.
Faulty == {AbsPath(P1)}

Init ==
    /\ \E variant \in TrashVariants :
         /\ fs = FsOf(BasePairs \cup TrashPairs(variant))
         /\ bulk = IF variant = "full" THEN FullFamilies ELSE {}
         /\ locked \in AtMostOne(Faulty)
         /\ longname \in AtMostOne(Faulty)
         /\ locked = {} \/ longname = {}
         /\ variant \in {"blocked", "full"} => locked = {} /\ longname = {}
    /\ calls = 0
    /\ pc = "idle"
    /\ rawPaths = None
    /\ platform = ""
    /\ paths = <<>>
    /\ invoked = <<>>
    /\ home_dir = ""
    /\ nowArg = None
    /\ now = None
    /\ stamp = ""
    /\ idx = 0
    /\ dest = RuntimeError
    /\ ok = <<>>
    /\ failed = <<>>
    /\ osCalls = <<>>
    /\ fsAtCall = fs

(***************************************************************************)
(* send_paths_to_trash: normalization and dispatch.  The movers' own       *)
(* parameters (home_dir, now) are recorded for the mover that receives     *)
(* them.                                                                   *)
(***************************************************************************)
send_paths_to_trash ==
    /\ pc = "idle"
    /\ calls < (IF bulk = {} THEN MaxCalls ELSE MaxCallsWhenFull)
    /\ \E raw \in PathLists, platArg \in PlatformArgs, homeArg \in HomeArgs, nowIn \in NowArgs :
         LET plat == IF Truthy(platArg) THEN platArg.v ELSE SysPlatform
             norm == Normalize(raw)
             mover == Dispatch(plat)
         IN /\ rawPaths' = raw
            /\ platform' = plat
            /\ paths' = norm
            /\ IF norm = <<>>
               THEN /\ pc' = "done"
                    /\ invoked' = <<>>
                    /\ home_dir' = ""
                    /\ nowArg' = None
               ELSE /\ invoked' = <<mover>>
                    /\ pc' = mover
                    /\ home_dir' = IF mover = "windows" THEN ""
                                   ELSE IF Truthy(homeArg) THEN homeArg.v ELSE ExpandUser
                    /\ nowArg' = IF mover = "freedesktop" THEN nowIn ELSE None
    /\ calls' = calls + 1
    /\ now' = None
    /\ stamp' = ""
    /\ idx' = 0
    /\ dest' = RuntimeError
    /\ ok' = <<>>
    /\ failed' = <<>>
    /\ osCalls' = <<>>
    /\ fsAtCall' = fs
    /\ UNCHANGED <<fs, bulk, locked, longname>>

(***************************************************************************)
(* _trash_windows: one SHFileOperationW request for the existing paths.    *)
(* The shell answers with any return code and aborted flag; it recycles    *)
(* the files of the request when it reports success.                       *)
(***************************************************************************)
FO_DELETE == 3
FOF_ALLOWUNDO == 64
FOF_NOCONFIRMATION == 16
FOF_SILENT == 4
FOF_NOERRORUI == 1024

ExistingOf(f, b, ps) ==
    LET IsThere(p) == p # "" /\ Exists(f, b, p) IN SelectSeq(ps, IsThere)

\* Mutant: the aborted flag alone is not taken as a failure.
ReportsFailureRetOnly(ret, aborted) == ret # 0

\* "if ret != 0 or op.fAnyOperationsAborted"
ReportsFailure(ret, aborted) == ret # 0 \/ aborted # 0

\* The shell has recycled the request's files exactly when it answers 0 with
\* the aborted flag clear.
ShellDone(ret, aborted) == ret = 0 /\ aborted = 0

trash_windows ==
    /\ pc = "windows"
    /\ LET existing == ExistingOf(fs, bulk, paths)
       IN IF existing = <<>>
          THEN /\ ok' = <<>>
               /\ failed' = paths
               /\ UNCHANGED <<fs, osCalls>>
          ELSE \E ret \in {0, 2}, aborted \in {0, 1} :
                 /\ osCalls' = Append(osCalls,
                                      [wFunc |-> FO_DELETE,
                                       pFrom |-> FromBuf(existing),
                                       fFlags |-> FOF_ALLOWUNDO + FOF_NOCONFIRMATION
                                                  + FOF_SILENT + FOF_NOERRORUI,
                                       ret |-> ret,
                                       fAnyOperationsAborted |-> aborted])
                 /\ fs' = IF ShellDone(ret, aborted)
                          THEN Recycle(fs, ShellNames(FromBuf(existing)))
                          ELSE fs
                 /\ IF ReportsFailure(ret, aborted)
                    THEN ok' = <<>> /\ failed' = existing
                    ELSE ok' = existing /\ failed' = <<>>
    /\ pc' = "done"
    /\ UNCHANGED <<bulk, locked, longname, calls, rawPaths, platform, paths, invoked,
                   home_dir, nowArg, now, stamp, idx, dest, fsAtCall>>

(***************************************************************************)
(* The loop body shared in shape by _trash_macos and _trash_freedesktop.   *)
(***************************************************************************)
\* "not p or not os.path.exists(p)"
Missing(f, b, p) == p = "" \/ ~Exists(f, b, p)

\* shutil.move(p, dest) raises: the source is gone or may not be moved.
MoveRaises(f, p) == Resolve(p) \notin DOMAIN f \/ Resolve(p) \in locked

\* open(info_path, "w") raises: the name is too long, names a directory, or
\* lies in no directory.
WriteRaises(f, p, info_path) ==
    \/ Resolve(p) \in longname
    \/ info_path \in DOMAIN f /\ f[info_path].kind = "dir"
    \/ \E q \in AncestorSet(info_path) \ {info_path} : q \notin DOMAIN f

\* except Exception: failed.append(p)
LoopHead == IF invoked = <<"macos">> THEN "macos_loop" ELSE "freedesktop_loop"

\* Mutant: the exception is not caught and leaves the mover.
OnExceptionPropagates(p) ==
    /\ pc' = "raised"
    /\ UNCHANGED <<fs, ok, failed, idx, dest>>

\* Mutant: the path was appended to ok before the statement that raised.
OnExceptionAfterOk(p) ==
    /\ ok' = Append(ok, p)
    /\ idx' = idx + 1
    /\ dest' = RuntimeError
    /\ pc' = LoopHead
    /\ UNCHANGED <<fs, failed>>

\* except Exception: failed.append(p), and the loop goes on.
OnException(p) ==
    /\ failed' = Append(failed, p)
    /\ idx' = idx + 1
    /\ dest' = RuntimeError
    /\ pc' = LoopHead
    /\ UNCHANGED <<fs, ok>>

(***************************************************************************)
(* _trash_macos                                                            *)
(***************************************************************************)
macos_makedirs ==
    /\ pc = "macos"
    /\ \/ /\ ~MakedirsBlocked(fs, MacTrashDir(home_dir))
          /\ fs' = Makedirs(fs, MacTrashDir(home_dir))
          /\ pc' = "macos_loop"
          /\ idx' = 1
       \/ /\ MakedirsBlocked(fs, MacTrashDir(home_dir))
             \/ MakedirsNeeded(fs, MacTrashDir(home_dir))
          /\ pc' = "raised"
          /\ UNCHANGED <<fs, idx>>
    /\ UNCHANGED <<bulk, locked, longname, calls, rawPaths, platform, paths, invoked,
                   home_dir, nowArg, now, stamp, dest, ok, failed, osCalls, fsAtCall>>

macos_check ==
    /\ pc = "macos_loop"
    /\ idx <= Len(paths)
    /\ LET p == paths[idx]
           r == unique_dest_path(fs, bulk, MacTrashDir(home_dir), Basename(p))
       IN IF Missing(fs, bulk, p)
          THEN /\ failed' = Append(failed, p)
               /\ idx' = idx + 1
               /\ UNCHANGED <<pc, dest, fs, ok>>
          ELSE IF r.err
          THEN OnException(p)
          ELSE /\ dest' = r
               /\ pc' = "macos_move"
               /\ UNCHANGED <<idx, fs, ok, failed>>
    /\ UNCHANGED <<bulk, locked, longname, calls, rawPaths, platform, paths, invoked,
                   home_dir, nowArg, now, stamp, osCalls, fsAtCall>>

macos_move ==
    /\ pc = "macos_move"
    /\ LET p == paths[idx]
       IN IF MoveRaises(fs, p)
          THEN OnException(p)
          ELSE /\ fs' = ShutilMove(fs, p, dest.path)
               /\ ok' = Append(ok, p)
               /\ idx' = idx + 1
               /\ dest' = RuntimeError
               /\ pc' = "macos_loop"
               /\ UNCHANGED failed
    /\ UNCHANGED <<bulk, locked, longname, calls, rawPaths, platform, paths, invoked,
                   home_dir, nowArg, now, stamp, osCalls, fsAtCall>>

macos_return ==
    /\ pc = "macos_loop"
    /\ idx > Len(paths)
    /\ pc' = "done"
    /\ UNCHANGED <<fs, bulk, locked, longname, calls, rawPaths, platform, paths, invoked,
                   home_dir, nowArg, now, stamp, idx, dest, ok, failed, osCalls, fsAtCall>>

(***************************************************************************)
(* _trash_freedesktop                                                      *)
(***************************************************************************)
freedesktop_makedirs_files ==
    /\ pc = "freedesktop"
    /\ \/ /\ ~MakedirsBlocked(fs, FilesDir(home_dir))
          /\ fs' = Makedirs(fs, FilesDir(home_dir))
          /\ pc' = "freedesktop_info_dir"
       \/ /\ MakedirsBlocked(fs, FilesDir(home_dir))
             \/ MakedirsNeeded(fs, FilesDir(home_dir))
          /\ pc' = "raised"
          /\ UNCHANGED fs
    /\ UNCHANGED <<bulk, locked, longname, calls, rawPaths, platform, paths, invoked,
                   home_dir, nowArg, now, stamp, idx, dest, ok, failed, osCalls, fsAtCall>>

\* The second makedirs, then "now = now or datetime.now()" and the stamp.
freedesktop_makedirs_info ==
    /\ pc = "freedesktop_info_dir"
    /\ \/ /\ ~MakedirsBlocked(fs, InfoDir(home_dir))
          /\ fs' = Makedirs(fs, InfoDir(home_dir))
          /\ \E clock \in ClockReads :
               now' = IF nowArg = None THEN clock ELSE nowArg
          /\ stamp' = Strftime(now')
          /\ pc' = "freedesktop_loop"
          /\ idx' = 1
       \/ /\ MakedirsBlocked(fs, InfoDir(home_dir))
             \/ MakedirsNeeded(fs, InfoDir(home_dir))
          /\ pc' = "raised"
          /\ UNCHANGED <<fs, now, stamp, idx>>
    /\ UNCHANGED <<bulk, locked, longname, calls, rawPaths, platform, paths, invoked,
                   home_dir, nowArg, dest, ok, failed, osCalls, fsAtCall>>

freedesktop_check ==
    /\ pc = "freedesktop_loop"
    /\ idx <= Len(paths)
    /\ LET p == paths[idx]
           r == unique_dest_path(fs, bulk, FilesDir(home_dir), Basename(p))
       IN IF Missing(fs, bulk, p)
          THEN /\ failed' = Append(failed, p)
               /\ idx' = idx + 1
               /\ UNCHANGED <<pc, dest, fs, ok>>
          ELSE IF r.err
          THEN OnException(p)
          ELSE /\ dest' = r
               /\ pc' = "freedesktop_move"
               /\ UNCHANGED <<idx, fs, ok, failed>>
    /\ UNCHANGED <<bulk, locked, longname, calls, rawPaths, platform, paths, invoked,
                   home_dir, nowArg, now, stamp, osCalls, fsAtCall>>

freedesktop_move ==
    /\ pc = "freedesktop_move"
    /\ LET p == paths[idx]
       IN IF MoveRaises(fs, p)
          THEN OnException(p)
          ELSE /\ fs' = ShutilMove(fs, p, dest.path)
               /\ pc' = "freedesktop_write"
               /\ UNCHANGED <<idx, dest, ok, failed>>
    /\ UNCHANGED <<bulk, locked, longname, calls, rawPaths, platform, paths, invoked,
                   home_dir, nowArg, now, stamp, osCalls, fsAtCall>>

freedesktop_write ==
    /\ pc = "freedesktop_write"
    /\ LET p == paths[idx]
           info_path == InfoPath(home_dir, dest.path)
       IN IF WriteRaises(fs, p, info_path)
          THEN OnException(p)
          ELSE /\ fs' = WriteFile(fs, info_path, TrashInfoLines(p, stamp))
               /\ ok' = Append(ok, p)
               /\ idx' = idx + 1
               /\ dest' = RuntimeError
               /\ pc' = "freedesktop_loop"
               /\ UNCHANGED failed
    /\ UNCHANGED <<bulk, locked, longname, calls, rawPaths, platform, paths, invoked,
                   home_dir, nowArg, now, stamp, osCalls, fsAtCall>>

freedesktop_return ==
    /\ pc = "freedesktop_loop"
    /\ idx > Len(paths)
    /\ pc' = "done"
    /\ UNCHANGED <<fs, bulk, locked, longname, calls, rawPaths, platform, paths, invoked,
                   home_dir, nowArg, now, stamp, idx, dest, ok, failed, osCalls, fsAtCall>>

\* The caller takes the result (or the exception) and is ready for another call.
caller_continues ==
    /\ pc \in {"done", "raised"}
    /\ pc' = "idle"
    /\ rawPaths' = None
    /\ platform' = ""
    /\ paths' = <<>>
    /\ invoked' = <<>>
    /\ home_dir' = ""
    /\ nowArg' = None
    /\ now' = None
    /\ stamp' = ""
    /\ idx' = 0
    /\ dest' = RuntimeError
    /\ ok' = <<>>
    /\ failed' = <<>>
    /\ osCalls' = <<>>
    /\ fsAtCall' = fs
    /\ UNCHANGED <<fs, bulk, locked, longname, calls>>

Next ==
    \/ send_paths_to_trash
    \/ caller_continues
    \/ trash_windows
    \/ macos_makedirs
    \/ macos_check
    \/ macos_move
    \/ macos_return
    \/ freedesktop_makedirs_files
    \/ freedesktop_makedirs_info
    \/ freedesktop_check
    \/ freedesktop_move
    \/ freedesktop_write
    \/ freedesktop_return

Spec == Init /\ [][Next]_vars

(***************************************************************************)
(* A second process that acts between the probe and the move (for instance *)
(* another mover call): it takes the name the probe has just found free,   *)
(* with a file or with a directory of its own.                             *)
(***************************************************************************)
MaxIntrusions == 1
OtherFile == FileEntry(<<"other">>)
InTrashDir(q) ==
    \/ StartsWith(q, MacTrashDir(ExpandUser) \o Sep)
    \/ StartsWith(q, FilesDir(ExpandUser) \o Sep)
Intruders(f) == {q \in DOMAIN f : InTrashDir(q) /\ f[q] \in {OtherFile, DirEntry}}

other_process_takes_name ==
    /\ pc \in {"macos_move", "freedesktop_move"}
    /\ dest.path \notin DOMAIN fs
    /\ Cardinality(Intruders(fs)) < MaxIntrusions
    /\ \E entry \in {OtherFile, DirEntry} :
          fs' = [q \in DOMAIN fs \cup {dest.path} |-> IF q = dest.path THEN entry ELSE fs[q]]
    /\ UNCHANGED <<bulk, locked, longname, calls, pc, rawPaths, platform, paths, invoked,
                   home_dir, nowArg, now, stamp, idx, dest, ok, failed, osCalls, fsAtCall>>

NextRace ==
    \/ Next
    \/ other_process_takes_name

\* The race is followed on the trashes whose records can all be written.
InitRace == Init /\ longname = {} /\ bulk = {}

SpecRace == InitRace /\ [][NextRace]_vars

(***************************************************************************)
(* Vocabulary of the properties.                                           *)
(***************************************************************************)
ToSet(seq) == {seq[k] : k \in 1..Len(seq)}
NoDuplicates(seq) == \A j, k \in 1..Len(seq) : seq[j] = seq[k] => j = k
Returned == pc = "done"
Mover == IF invoked = <<>> THEN "none" ELSE invoked[Len(invoked)]

\* The argument's entries that are neither None nor empty, as strings.
RawEntries == IF rawPaths.t = "list" THEN rawPaths.v ELSE <<>>
Survivors == {RawEntries[k].v : k \in {n \in 1..Len(RawEntries) :
                                          RawEntries[n].t # "None" /\ RawEntries[n].v # ""}}

\* The input paths that named a file when the call started.
ExistedAtCall(p) == Resolve(p) \in DOMAIN fsAtCall

\* C1: after send_paths_to_trash returns (succeeded, failed), every path that
\* survived normalization is in succeeded or in failed, on every platform.
C1_EveryPathReported ==
    Returned => \A p \in Survivors : p \in ToSet(ok) \cup ToSet(failed)

\* C2: in the result no path is both in succeeded and in failed, and no path
\* occurs twice within succeeded or twice within failed, whatever the input
\* list (duplicates included).
C2_NoDoubleReport ==
    Returned => /\ ToSet(ok) \cap ToSet(failed) = {}
                /\ NoDuplicates(ok)
                /\ NoDuplicates(failed)

\* C3: the Windows mover, when some input path exists, issues exactly one
\* delete request, for all the existing paths; a nonzero return code or a set
\* aborted flag puts every existing path in failed and none in succeeded, a
\* zero code with the flag clear puts every existing path in succeeded: the
\* outcome is never split per file.
C3_WindowsAllOrNothing ==
    (Returned /\ Mover = "windows" /\ \E p \in ToSet(paths) : ExistedAtCall(p)) =>
        /\ Len(osCalls) = 1
        /\ ToSet(ShellNames(osCalls[1].pFrom)) = {p \in ToSet(paths) : ExistedAtCall(p)}
        /\ (osCalls[1].ret # 0 \/ osCalls[1].fAnyOperationsAborted # 0) =>
              /\ ok = <<>>
              /\ \A p \in ToSet(paths) : ExistedAtCall(p) => p \in ToSet(failed)
        /\ (osCalls[1].ret = 0 /\ osCalls[1].fAnyOperationsAborted = 0) =>
              \A p \in ToSet(paths) : ExistedAtCall(p) => p \in ToSet(ok)
        /\ ~\E p, q \in ToSet(paths) :
              ExistedAtCall(p) /\ ExistedAtCall(q) /\ p \in ToSet(ok) /\ q \in ToSet(failed)

\* The shell answered 0 but set the aborted flag, and both existing paths are failed.
C3_Witness ==
    /\ Returned
    /\ Mover = "windows"
    /\ Len(osCalls) = 1
    /\ osCalls[1].ret = 0
    /\ osCalls[1].fAnyOperationsAborted = 1
    /\ ok = <<>>
    /\ ToSet(failed) = {P1, P2}

\* C4: a non-empty normalized list goes to exactly one mover, chosen by the
\* platform identifier alone: a "win" prefix selects the Windows mover,
\* "darwin" the macOS mover, anything else the freedesktop mover.
MoverPositions(m) ==
    CASE m = "windows" -> {"windows", "done"}
      [] m = "macos" -> {"macos", "macos_loop", "macos_move", "done", "raised"}
      [] m = "freedesktop" -> {"freedesktop", "freedesktop_info_dir", "freedesktop_loop",
                               "freedesktop_move", "freedesktop_write", "done", "raised"}
Selected(m) == invoked = <<m>> /\ pc \in MoverPositions(m)
C4_DispatchByPlatform ==
    (pc # "idle" /\ paths # <<>>) =>
        /\ (Len(platform) >= 3 /\ SubSeq(platform, 1, 3) = "win")
              => Selected("windows")
        /\ platform = "darwin" => Selected("macos")
        /\ platform \in {"linux"} => Selected("freedesktop")
        /\ Selected("windows") \/ Selected("macos") \/ Selected("freedesktop")

\* The identifier is the bare tag "win" and the Windows mover has returned.
C4_Witness ==
    /\ platform = "win"
    /\ paths # <<>>
    /\ invoked = <<"windows">>
    /\ Returned

\* C5: _unique_dest_path returns targetDir/baseName when that does not exist,
\* otherwise targetDir/{stem}.{i}{ext} for the smallest i in 1..9999 whose
\* path does not exist (s.t.1.m after s.t.m, s.t.2.m when s.t.1.m exists too);
\* the returned path does not exist when it is selected; with the base name
\* and all 9999 suffixed names occupied an error is raised instead.
ProbeDir == IF pc = "macos_loop" THEN "/h/.Trash"
            ELSE FilesDir(ExpandUser)
Taken(name) == Exists(fs, bulk, PathJoin(ProbeDir, name))
\* The base name being probed; every base name of the model ends in ".m".
Probed == Basename(paths[idx])
Suffixed(n) == SubSeq(Probed, 1, Len(Probed) - 2) \o "." \o Dec(n) \o ".m"
Probing ==
    /\ pc \in {"macos_loop", "freedesktop_loop"}
    /\ idx <= Len(paths)
    /\ ~Missing(fs, bulk, paths[idx])
    /\ vars' # vars
C5_UniqueDestPath ==
    [][Probing =>
         IF ~Taken(Probed)
         THEN dest' = Found(PathJoin(ProbeDir, Probed))
         ELSE IF \E n \in 1..9999 : ~Taken(Suffixed(n))
         THEN /\ \E n \in 1..9999 :
                   /\ dest' = Found(PathJoin(ProbeDir, Suffixed(n)))
                   /\ ~Taken(Suffixed(n))
                   /\ \A m \in 1..(n - 1) : Taken(Suffixed(m))
              /\ (Probed = BaseName /\ ~Taken(FirstAlt))
                    => dest'.path = PathJoin(ProbeDir, FirstAlt)
              /\ (Probed = BaseName /\ Taken(FirstAlt) /\ ~Taken(SecondAlt))
                    => dest'.path = PathJoin(ProbeDir, SecondAlt)
         ELSE /\ dest'.err
              /\ failed' = Append(failed, paths[idx])
              /\ pc' = pc
              /\ fs' = fs]_vars

\* s.t.m and s.t.1.m are in ~/.Trash and the probe has chosen s.t.2.m.
C5_Witness ==
    /\ pc = "macos_move"
    /\ dest = Found(PathJoin(MacTrashDir(ExpandUser), SecondAlt))
    /\ PathJoin(MacTrashDir(ExpandUser), BaseName) \in DOMAIN fs
    /\ PathJoin(MacTrashDir(ExpandUser), FirstAlt) \in DOMAIN fs

\* C6 as stated: when the freedesktop mover trashes a file whose base name is
\* that of a file it trashed before (same call or an earlier one), the second
\* file lands in files/{stem}.1{ext} with record info/{stem}.1{ext}.trashinfo,
\* and the first file's entry and record are unchanged.
InFiles(q) == StartsWith(q, FilesDir(ExpandUser) \o Sep)
TrashedAt(src) == {q \in DOMAIN fs : InFiles(q) /\ fs[q] = FileEntry(SourceData(src))}
RecordOf(q) == PathJoin(InfoDir(ExpandUser), Basename(q) \o InfoSuffix)
Kept(q) == q \in DOMAIN fs => (q \in DOMAIN fs' /\ fs'[q] = fs[q])
FirstKept(first) == \A q \in TrashedAt(first) : Kept(q) /\ Kept(RecordOf(q))
Changed == {q \in DOMAIN fs' : q \notin DOMAIN fs \/ fs'[q] # fs[q]}
SecondMoves == pc = "freedesktop_move" /\ pc' = "freedesktop_write"
SecondRecorded == pc = "freedesktop_write" /\ ok' # ok
Earlier ==
    IF SecondMoves \/ SecondRecorded
    THEN {src \in Sources \ {Resolve(paths[idx])} :
             Basename(src) = Basename(paths[idx]) /\ TrashedAt(src) # {}}
    ELSE {}
C6_SecondLandsAtFirstAlt ==
    [][\A first \in Earlier :
          /\ SecondMoves =>
                /\ dest.path = PathJoin(FilesDir(ExpandUser), FirstAlt)
                /\ FirstKept(first)
          /\ SecondRecorded =>
                /\ Changed = {PathJoin(InfoDir(ExpandUser), FirstAlt \o InfoSuffix)}
                /\ FirstKept(first)]_vars

\* C6 as amended: the second file lands under a name that no entry of files/
\* holds, and its record under that name; this is files/{stem}.1{ext} when the
\* first file holds files/{stem}{ext} and files/{stem}.1{ext} is free; the
\* first file's entry and record are unchanged.
C6_NoOverwrite ==
    [][\A first \in Earlier :
          /\ SecondMoves =>
                /\ dest.path \notin DOMAIN fs
                /\ InFiles(dest.path)
                /\ (/\ TrashedAt(first) = {PathJoin(FilesDir(ExpandUser), BaseName)}
                    /\ PathJoin(FilesDir(ExpandUser), FirstAlt) \notin DOMAIN fs)
                      => dest.path = PathJoin(FilesDir(ExpandUser), FirstAlt)
                /\ FirstKept(first)
          /\ SecondRecorded =>
                /\ Changed = {RecordOf(dest.path)}
                /\ \A q \in TrashedAt(first) : RecordOf(q) # RecordOf(dest.path)
                /\ fs[dest.path] = FileEntry(SourceData(Resolve(paths[idx])))
                /\ FirstKept(first)]_vars

\* Two successive calls have put the first file in files/s.t.m and the second
\* in files/s.t.1.m, each with its record.
C6_Witness ==
    /\ calls = 2
    /\ Returned
    /\ Mover = "freedesktop"
    /\ TrashedAt(AbsPath(P1)) = {PathJoin(FilesDir(ExpandUser), BaseName)}
    /\ TrashedAt(P2) = {PathJoin(FilesDir(ExpandUser), FirstAlt)}
    /\ PathJoin(InfoDir(ExpandUser), BaseName \o InfoSuffix) \in DOMAIN fs
    /\ PathJoin(InfoDir(ExpandUser), FirstAlt \o InfoSuffix) \in DOMAIN fs
    /\ paths = <<P2>>
    /\ ok = <<P2>>

\* Percent-decoding, the inverse a reader of the record applies.
HexValue(c) ==
    CASE c = "0" -> 0 [] c = "1" -> 1 [] c = "2" -> 2 [] c = "3" -> 3 [] c = "4" -> 4
      [] c = "5" -> 5 [] c = "6" -> 6 [] c = "7" -> 7 [] c = "8" -> 8 [] c = "9" -> 9
      [] c = "A" -> 10 [] c = "B" -> 11 [] c = "C" -> 12 [] c = "D" -> 13
      [] c = "E" -> 14 [] c = "F" -> 15
Chr(n) == CASE n = 32 -> " " [] n = 37 -> "%" [] n = 61 -> "=" [] n = 91 -> "[" [] n = 93 -> "]"
RECURSIVE Unquote(_)
Unquote(s) ==
    IF s = "" THEN ""
    ELSE IF Char(s, 1) = "%" /\ Len(s) >= 3
         THEN Chr(16 * HexValue(Char(s, 2)) + HexValue(Char(s, 3)))
              \o Unquote(SubSeq(s, 4, Len(s)))
         ELSE Char(s, 1) \o Unquote(SubSeq(s, 2, Len(s)))

\* C7: after a freedesktop mover call every path in succeeded has an entry
\* files/<d> holding the moved file and a record info/<d>.trashinfo whose Path
\* decodes to the absolute original path and whose DeletionDate is the
\* timestamp taken once at the start of the call (from the injected clock when
\* one is given); all records written by the call carry that same date.
AbsoluteOriginal(p) == IF p = P1 THEN "/a/s.t.m" ELSE p
StampText(t) ==
    IF t = Clock2 THEN "23:59:59"
    ELSE "09:05:07"
CallStamp == StampText(IF nowArg # None THEN nowArg ELSE now)
IsRecordOf(r, p) ==
    /\ r \in DOMAIN fs
    /\ fs[r].kind = "file"
    /\ Len(fs[r].data) = 3
    /\ fs[r].data[1] = HeaderLine
    /\ StartsWith(fs[r].data[2], PathKey)
    /\ Unquote(SubSeq(fs[r].data[2], Len(PathKey) + 1, Len(fs[r].data[2]))) = AbsoluteOriginal(p)
    /\ fs[r].data[3] = DateKey \o CallStamp
WrittenByCall ==
    {r \in DOMAIN fs : /\ StartsWith(r, InfoDir(ExpandUser) \o Sep)
                       /\ (r \notin DOMAIN fsAtCall \/ fsAtCall[r] # fs[r])}
C7_RecordsMatch ==
    (Returned /\ Mover = "freedesktop") =>
        /\ \A k \in 1..Len(ok) :
              \E q \in DOMAIN fs :
                 /\ InFiles(q)
                 /\ AbsoluteOriginal(ok[k]) \in DOMAIN fsAtCall
                 /\ fs[q] = fsAtCall[AbsoluteOriginal(ok[k])]
                 /\ IsRecordOf(RecordOf(q), ok[k])
        /\ \A r \in WrittenByCall : fs[r].data[3] = DateKey \o CallStamp

\* Both files were trashed by one call under the injected clock.
C7_Witness ==
    /\ Returned
    /\ Mover = "freedesktop"
    /\ ok = <<P1, P2>>
    /\ nowArg = Clock2
    /\ Cardinality(WrittenByCall) = 2

\* C8 as stated: the Mac mover, given only paths that do not exist, returns
\* them in failed and creates no directory entry at all, whatever the state of
\* the home directory.
OnlyMissingGiven ==
    /\ Returned
    /\ Mover = "macos"
    /\ \A p \in ToSet(paths) : ~ExistedAtCall(p)
C8_NothingCreated ==
    OnlyMissingGiven => /\ \A p \in ToSet(paths) : p \in ToSet(failed)
                        /\ ok = <<>>
                        /\ fs = fsAtCall

\* C8 as amended: ... returns them in failed, moves nothing and creates no
\* entry inside the trash; the only entries the call may create are the trash
\* directory {homeDir}/.Trash itself and its missing parents.
C8_OnlyTrashDirCreated ==
    OnlyMissingGiven =>
        /\ \A p \in ToSet(paths) : p \in ToSet(failed)
        /\ ok = <<>>
        /\ \A q \in DOMAIN fsAtCall : q \in DOMAIN fs /\ fs[q] = fsAtCall[q]
        /\ \A q \in DOMAIN fs \ DOMAIN fsAtCall :
              /\ q \in {"/h", "/h/.Trash"}
              /\ fs[q] = DirEntry

\* A missing path went to the Mac mover when ~/.Trash did not exist.
C8_Witness ==
    /\ OnlyMissingGiven
    /\ paths = <<PMissing>>
    /\ failed = <<PMissing>>
    /\ "/h/.Trash" \notin DOMAIN fsAtCall
    /\ "/h/.Trash" \in DOMAIN fs

\* C9: empty, None or all-falsy input returns ([], []) on every platform
\* without invoking a mover: no trash directory is created, no delete request
\* is issued, the filesystem is unchanged.
AllFalsy == Survivors = {}
C9_EmptyInput ==
    (pc # "idle" /\ AllFalsy) =>
        /\ Returned
        /\ ok = <<>>
        /\ failed = <<>>
        /\ invoked = <<>>
        /\ osCalls = <<>>
        /\ fs = fsAtCall

\* A list of two empty strings was given for a Windows identifier.
C9_Witness ==
    /\ Returned
    /\ rawPaths.t = "list"
    /\ rawPaths.v = <<Str(""), Str("")>>
    /\ platform = "win32"
    /\ ok = <<>>
    /\ failed = <<>>

(***************************************************************************)
(* C10.  The body of the movers' loops as a function of the filesystem:    *)
(* what handling path p on filesystem f leaves behind, whether p went to   *)
(* ok, and the name p's file was left under in the trash ("" when it was   *)
(* not moved).                                                             *)
(***************************************************************************)
LoopMover == Mover \in {"macos", "freedesktop"}
NotMoved(f) == [fs |-> f, won |-> FALSE, at |-> ""]
Attempt(f, p) ==
    LET dir == IF Mover = "macos" THEN MacTrashDir(home_dir) ELSE FilesDir(home_dir)
        r == unique_dest_path(f, bulk, dir, Basename(p))
        moved == MoveFile(f, p, r.path)
        info_path == InfoPath(home_dir, r.path)
    IN IF Missing(f, bulk, p) THEN NotMoved(f)
       ELSE IF r.err THEN NotMoved(f)
       ELSE IF MoveRaises(f, p) THEN NotMoved(f)
       ELSE IF Mover = "macos" THEN [fs |-> moved, won |-> TRUE, at |-> r.path]
       ELSE IF WriteRaises(moved, p, info_path) THEN [fs |-> moved, won |-> FALSE, at |-> r.path]
       ELSE [fs |-> WriteFile(moved, info_path, TrashInfoLines(p, stamp)),
             won |-> TRUE, at |-> r.path]

\* Handling the paths ps in order, starting on filesystem f: the filesystem
\* left behind and the outcome of every path.
RECURSIVE Outcomes(_, _)
Outcomes(f, ps) ==
    IF ps = <<>> THEN [fs |-> f, of |-> <<>>]
    ELSE LET a == Attempt(f, Head(ps))
             rest == Outcomes(a.fs, Tail(ps))
         IN [fs |-> rest.fs,
             of |-> <<[path |-> Head(ps), won |-> a.won, at |-> a.at]>> \o rest.of]

\* The filesystem when the loop starts: the trash directories exist.
AtLoopStart ==
    IF Mover = "macos" THEN Makedirs(fsAtCall, MacTrashDir(home_dir))
    ELSE Makedirs(Makedirs(fsAtCall, FilesDir(home_dir)), InfoDir(home_dir))
Without(ps, k) == SubSeq(ps, 1, k - 1) \o SubSeq(ps, k + 1, Len(ps))
Won(o) == o.won
Lost(o) == ~o.won
PathsOf(os) == [k \in 1..Len(os) |-> os[k].path]

\* The call's result and filesystem are those of handling every path in order.
EveryPathAttempted(run) ==
    /\ ok = PathsOf(SelectSeq(run.of, Won))
    /\ failed = PathsOf(SelectSeq(run.of, Lost))
    /\ fs = run.fs

Unaffected(failing, later, would) ==
    /\ Basename(later) # Basename(failing.path)
    /\ would.at # failing.at
RecordNotWritten ==
    /\ pc = "freedesktop_write"
    /\ vars' # vars
    /\ RecordOf(dest.path) \in DOMAIN fs' =>
          (RecordOf(dest.path) \in DOMAIN fs /\ fs'[RecordOf(dest.path)] = fs[RecordOf(dest.path)])

\* C11: in the freedesktop mover, when the record of a moved file cannot be
\* written, the path is appended to failed and not to succeeded, the file
\* stays in files/ under its destination name and is not put back at its
\* original location, and the loop goes on with the next path.
C11_WriteFailureAfterMove ==
    [][RecordNotWritten =>
          /\ failed' = Append(failed, paths[idx])
          /\ ok' = ok
          /\ InFiles(dest.path)
          /\ dest.path \in DOMAIN fs'
          /\ fs'[dest.path] = fsAtCall[Resolve(paths[idx])]
          /\ Resolve(paths[idx]) \notin DOMAIN fs'
          /\ fs' = fs
          /\ pc' = "freedesktop_loop"
          /\ idx' = idx + 1]_vars

\* The first of two paths was moved to files/s.t.m, its record was not
\* written, and the loop stands at the second path.
C11_Witness ==
    /\ pc = "freedesktop_loop"
    /\ Len(paths) = 2
    /\ idx = 2
    /\ failed = <<P1>>
    /\ ok = <<>>
    /\ AbsPath(P1) \notin DOMAIN fs
    /\ TrashedAt(AbsPath(P1)) = {PathJoin(FilesDir(ExpandUser), BaseName)}
    /\ RecordOf(PathJoin(FilesDir(ExpandUser), BaseName)) \notin DOMAIN fs

(***************************************************************************)
(* C12.                                                                    *)
(***************************************************************************)
InInfo(q) == StartsWith(q, InfoDir(ExpandUser) \o Sep)
RecordWritten == pc = "freedesktop_write" /\ fs' # fs

\* C12: in the freedesktop mover every record write creates a new info file:
\* whatever files/ and info/ held at the start (a record without a matching
\* files/ entry included), the record path does not exist before the write,
\* and no existing entry of info/ is overwritten or truncated.
C12_NoRecordOverwritten ==
    [][RecordWritten =>
          /\ RecordOf(dest.path) \notin DOMAIN fs
          /\ \A r \in DOMAIN fs : InInfo(r) => Kept(r)]_vars

(***************************************************************************)
(* C13.                                                                    *)
(***************************************************************************)
\* The directory the mover is about to create, at the positions before its loop.
CreatingDir ==
    CASE pc = "macos" -> "/h/.Trash"
      [] pc = "freedesktop" -> "/h/.local/share/Trash/files"
      [] OTHER -> "/h/.local/share/Trash/info"
IsDir(f, q) == q \in DOMAIN f /\ f[q].kind = "dir"
InputsInPlace(f) ==
    \A k \in 1..Len(paths) :
       ExistedAtCall(paths[k]) =>
          /\ Resolve(paths[k]) \in DOMAIN f
          /\ f[Resolve(paths[k])] = fsAtCall[Resolve(paths[k])]

\* C13: in the Mac and freedesktop movers, a trash directory that cannot be
\* created aborts the call: the error reaches the caller, no (succeeded,
\* failed) lists are returned and no input file has been moved; the mover goes
\* on to its loop only with the directory in place; a directory that exists
\* already is left as it is and raises no error.
C13_MakedirsFailureAborts ==
    [][/\ (pc \in {"macos", "freedesktop", "freedesktop_info_dir"} /\ vars' # vars) =>
             /\ pc' = "raised" \/ IsDir(fs', CreatingDir)
             /\ pc' = "raised" =>
                   /\ ~IsDir(fs, CreatingDir)
                   /\ ok' = <<>>
                   /\ failed' = <<>>
                   /\ InputsInPlace(fs')
             /\ IsDir(fs, CreatingDir) => (pc' # "raised" /\ fs' = fs)
       /\ pc = "raised" => pc' # "done"]_vars

\* The freedesktop mover has created files/ but not info/, and the error has
\* reached the caller with both input files where they were.
C13_Witness ==
    /\ pc = "raised"
    /\ Mover = "freedesktop"
    /\ paths = <<P1, P2>>
    /\ IsDir(fs, FilesDir(ExpandUser))
    /\ ~IsDir(fs, InfoDir(ExpandUser))
    /\ InputsInPlace(fs)

(***************************************************************************)
(* C14, under SpecRace.                                                    *)
(***************************************************************************)
MoveStep == pc \in {"macos_move", "freedesktop_move"} /\ pc' # pc
Occupied == dest.path \in DOMAIN fs
MovedFrom == Resolve(paths[idx])
MoveFailed == fs' = fs /\ failed' = Append(failed, paths[idx]) /\ ok' = ok
Overwrote ==
    /\ fs[dest.path].kind = "file"
    /\ fs'[dest.path] = fs[MovedFrom]
    /\ DOMAIN fs' = DOMAIN fs \ {MovedFrom}
MovedInside ==
    /\ fs[dest.path].kind = "dir"
    /\ fs'[dest.path] = fs[dest.path]
    /\ PathJoin(dest.path, Basename(paths[idx])) \in DOMAIN fs'
    /\ fs'[PathJoin(dest.path, Basename(paths[idx]))] = fs[MovedFrom]
    /\ MovedFrom \notin DOMAIN fs'

\* C14 as stated: the probe and the move are two steps; the destination the
\* probe chose exists at the moment of the move only when another process
\* took the name in between (never with the mover alone, where every name in
\* the trash has one occupant), and the move then fails or overwrites that
\* occupant.
C14_MoveFailsOrOverwrites ==
    [][(MoveStep /\ Occupied) =>
          /\ fs[dest.path] \in {OtherFile, DirEntry}
          /\ MoveFailed \/ Overwrote]_vars

\* C14 as amended: ... and the move then fails, overwrites that occupant when
\* it is a file, or puts the file inside it when it is a directory.
C14_RaceAtMove ==
    [][(MoveStep /\ Occupied) =>
          /\ fs[dest.path] \in {OtherFile, DirEntry}
          /\ MoveFailed \/ Overwrote \/ MovedInside]_vars

\* Another process's file holds the name the probe chose for the Mac mover,
\* which is about to move.
C14_Witness ==
    /\ pc = "macos_move"
    /\ ~dest.err
    /\ dest.path \in DOMAIN fs
    /\ fs[dest.path] = OtherFile

====
